---- MODULE Spec2Model ----
(***************************************************************************)
(* Session-lifecycle scheduling of addon/mixins/application-route-mixin.js *)
(* (ember-simple-auth-auth0): the renew and expire jobs of the application *)
(* route, the Ember run-loop timers behind them, the promise chains of the *)
(* two job callbacks and the session service they talk to.                 *)
(*                                                                         *)
(* Time is counted in seconds (utils/now); timer delays are milliseconds.  *)
(***************************************************************************)
EXTENDS Integers, FiniteSets, Sequences, Bags, TLC

\* ---------------------------------------------------------------- bounds
MaxNow == 1        \* the clock runs from 0 to MaxNow seconds
MaxJobs == 5       \* timers created by later() in one run
MaxRenew == 1      \* auth0.silentAuthRenewSeconds ranges over 0..MaxRenew
MaxExp == 2        \* expiration instants carried by session data: 1..MaxExp

\* ------------------------------------------------------------- constants
NoExp == -1        \* getSessionExpiration found no expiration (null/undefined)
Undefined == "undefined"   \* a property of the route that was never set

RenewJobName == "_renewJob"
ExpireJobName == "_expireJob"
JobNames == {RenewJobName, ExpireJobName}

VARIABLES
  now,                        \* utils/now: current time in seconds
  isAuthenticated,            \* session.isAuthenticated
  data,                       \* expiration carried by session.data.authenticated
  inTesting,                  \* config.environment === 'test'
  fastBoot,                   \* typeof FastBoot !== 'undefined'
  silentAuthRenewSeconds,     \* auth0.silentAuthRenewSeconds
  silentAuthOnSessionExpire,  \* auth0.silentAuthOnSessionExpire
  timers,                     \* run-loop timers started by later(), still pending
  laterCalls,                 \* calls of later() so far
  cache,                      \* cached value of _jwtRemainingTimeInSeconds
  destroyed,                  \* willDestroy has run
  inFlight,                   \* job callbacks suspended on a promise
  invalidateCalls,            \* calls of session.invalidate()
  invalidatePending,          \* session.invalidate() called, session not yet invalidated
  providerFailed,             \* some silent-auth authenticate call was rejected
  last                        \* the step taken last and what it did

vars == <<now, isAuthenticated, data, inTesting, fastBoot, silentAuthRenewSeconds,
          silentAuthOnSessionExpire, timers, laterCalls, cache, destroyed,
          inFlight, invalidateCalls, invalidatePending, providerFailed, last>>

config == <<inTesting, fastBoot, silentAuthRenewSeconds, silentAuthOnSessionExpire>>

ExpValues == 1..MaxExp \cup {NoExp}

EmptyCache == [valid |-> FALSE, value |-> 0, at |-> 0]

\* ------------------------------------------------------ the mutable world
\* The part of the state one handler reads and changes, threaded through the
\* calls the handler makes.
World ==
  [isAuthenticated |-> isAuthenticated, data |-> data, timers |-> timers,
   laterCalls |-> laterCalls, cache |-> cache,
   invalidateCalls |-> invalidateCalls, invalidatePending |-> invalidatePending,
   log |-> <<>>]

\* ----------------------------------------------------- session (external)
\* session.authenticate(...) succeeded: the session holds new data.
SessionStore(w, exp) ==
  [w EXCEPT !.isAuthenticated = TRUE, !.data = exp, !.cache = EmptyCache]

\* the session lost its data
SessionClear(w) ==
  [w EXCEPT !.isAuthenticated = FALSE, !.data = NoExp, !.cache = EmptyCache,
            !.invalidatePending = FALSE]

\* ------------------------------------------------------------ run loop
\* A pending timer is [name, delay, due, held, pre]: the job function it runs
\* (by the name of its job), its delay in milliseconds, the second at which
\* the delay has elapsed, whether the route property of that name
\* (this._renewJob, this._expireJob) holds its handle, and whether it was
\* started before willDestroy ran. timers is a bag: two pending timers can
\* agree on all of these.
Held(w, jobName) ==
  {t \in BagToSet(w.timers) : t.name = jobName /\ t.held}

\* cancel(handle), the handle being Undefined or the value of this[jobName]:
\* a handle that is undefined, or whose timer has fired, cancels nothing
cancel(w, handle) ==
  IF handle = Undefined THEN w
  ELSE [w EXCEPT !.timers = @ (-) SetToBag(Held(w, handle))]

\* later(this, jobFn, timeInMilli), the handle not yet stored anywhere
later(w, jobName, timeInMilli) ==
  [w EXCEPT !.timers = @ (+) SetToBag({[name |-> jobName, delay |-> timeInMilli,
                                       due |-> now + (timeInMilli \div 1000),
                                       held |-> FALSE, pre |-> FALSE]}),
            !.laterCalls = @ + 1]

\* set(this, jobName, job), job being the handle later() just returned: the
\* timer whose handle the property held before is no longer reachable
set(w, jobName, timeInMilli) ==
  LET job == [name |-> jobName, delay |-> timeInMilli,
              due |-> now + (timeInMilli \div 1000), held |-> FALSE,
              pre |-> FALSE]
      old == Held(w, jobName)
      lost == {[t EXCEPT !.held = FALSE] : t \in old}
  IN [w EXCEPT !.timers = (((@ (-) SetToBag(old)) (+) SetToBag(lost))
                           (-) SetToBag({job}))
                          (+) SetToBag({[job EXCEPT !.held = TRUE]})]

\* ---------------------------------------------------------- the mixin
\* this.jobName in _scheduleJob: the property of the route literally named
\* "jobName", which nothing sets.
ThisJobName(w, jobName) == Undefined

\* _scheduleJob(jobName, jobFn, timeInMilli)
ScheduleJob(w, jobName, timeInMilli) ==
  LET c == cancel(w, ThisJobName(w, jobName))
      l == later(c, jobName, timeInMilli)
      s == set(l, jobName, timeInMilli)
  IN [s EXCEPT !.log = Append(@, [ev |-> "schedule", name |-> jobName,
                                  delay |-> timeInMilli,
                                  auth |-> c.isAuthenticated])]

\* utils/get-session-expiration
getSessionExpiration(sessionData) == sessionData

\* _expiresAt
ExpiresAt(w) ==
  IF ~w.isAuthenticated THEN 0 ELSE getSessionExpiration(w.data)

\* (x ?? 0)
NullishZero(x) == IF x = NoExp THEN 0 ELSE x

\* the getter without its lower bound
RemainingGetterUnclamped(w) ==
  NullishZero(ExpiresAt(w)) - now

\* the getter of _jwtRemainingTimeInSeconds
RemainingGetter(w) ==
  LET remaining == NullishZero(ExpiresAt(w)) - now
  IN IF remaining < 0 THEN 0 ELSE remaining

\* reading this._jwtRemainingTimeInSeconds: a computed property, whose value
\* is kept until the session state it depends on changes
ReadRemaining(w) ==
  IF w.cache.valid THEN w
  ELSE [w EXCEPT !.cache = [valid |-> TRUE, value |-> RemainingGetter(w), at |-> now]]

\* _scheduleRenew
ScheduleRenew(w) ==
  LET renewInMilli == silentAuthRenewSeconds * 1000
  IN IF renewInMilli # 0
     THEN ScheduleJob(w, RenewJobName, renewInMilli)
     ELSE w

\* _scheduleExpire passing seconds where milliseconds are due
ScheduleExpireInSeconds(w) ==
  LET r == ReadRemaining(w)
  IN ScheduleJob(r, ExpireJobName, r.cache.value)

\* _scheduleExpire
ScheduleExpire(w) ==
  LET r == ReadRemaining(w)
      expireInMilli == r.cache.value * 1000
  IN ScheduleJob(r, ExpireJobName, expireInMilli)

\* _setupFutureEvents without the FastBoot test
SetupFutureEventsUnlessTesting(w) ==
  IF inTesting THEN w
  ELSE IF w.isAuthenticated THEN ScheduleExpire(ScheduleRenew(w))
  ELSE w

\* _setupFutureEvents
SetupFutureEvents(w) ==
  IF inTesting \/ fastBoot THEN w
  ELSE IF w.isAuthenticated THEN ScheduleExpire(ScheduleRenew(w))
  ELSE w

\* _clearJobs
ClearJobs(w) ==
  cancel(cancel(w, RenewJobName), ExpireJobName)

\* _invalidateIfAuthenticated with its test negated
InvalidateIfNotAuthenticated(w) ==
  IF ~w.isAuthenticated
  THEN [w EXCEPT !.invalidateCalls = @ + 1, !.invalidatePending = TRUE,
                 !.log = Append(@, [ev |-> "invalidate", name |-> "session",
                                    delay |-> 0, auth |-> w.isAuthenticated])]
  ELSE w

\* _invalidateIfAuthenticated without its test
InvalidateUnconditionally(w) ==
  [w EXCEPT !.invalidateCalls = @ + 1, !.invalidatePending = TRUE,
            !.log = Append(@, [ev |-> "invalidate", name |-> "session",
                               delay |-> 0, auth |-> w.isAuthenticated])]

\* _invalidateIfAuthenticated
InvalidateIfAuthenticated(w) ==
  IF w.isAuthenticated
  THEN [w EXCEPT !.invalidateCalls = @ + 1, !.invalidatePending = TRUE,
                 !.log = Append(@, [ev |-> "invalidate", name |-> "session",
                                    delay |-> 0, auth |-> w.isAuthenticated])]
  ELSE w

\* _trySilentAuth without the test of silentAuthOnSessionExpire
TrySilentAuthAlways(w) ==
  [w EXCEPT !.log = Append(@, [ev |-> "authenticate", name |-> "session",
                               delay |-> 0, auth |-> w.isAuthenticated])]

\* _trySilentAuth, up to the promise it returns: with silentAuthOnSessionExpire
\* it calls session.authenticate('authenticator:auth0-silent-auth')
TrySilentAuth(w) ==
  IF silentAuthOnSessionExpire
  THEN [w EXCEPT !.log = Append(@, [ev |-> "authenticate", name |-> "session",
                                    delay |-> 0, auth |-> w.isAuthenticated])]
  ELSE w

\* the two handlers of _processSessionRenewed in the other order
RenewContinuationSwapped(w, outcome) ==
  IF outcome = "resolved" THEN SetupFutureEvents(w) ELSE ScheduleRenew(w)

\* the handlers of _trySilentAuth().then(...) in _processSessionRenewed
RenewContinuation(w, outcome) ==
  IF outcome = "resolved" THEN ScheduleRenew(w) ELSE SetupFutureEvents(w)

\* the last .then(...) of _processSessionExpired running both handlers
ExpireContinuationBoth(w, outcome) ==
  ScheduleExpire(InvalidateIfAuthenticated(w))

\* the handlers of the last .then(...) in _processSessionExpired
ExpireContinuation(w, outcome) ==
  IF outcome = "resolved" THEN InvalidateIfAuthenticated(w) ELSE ScheduleExpire(w)

\* _trySilentAuth passing the provider's result on as it is
SilentAuthOutcomeAsIs(providerOk) ==
  IF providerOk THEN "resolved" ELSE "rejected"

\* the promise _trySilentAuth returns once the provider has answered
SilentAuthOutcome(providerOk) ==
  IF providerOk THEN "rejected" ELSE "resolved"

\* p.then(onFulfilled, onRejected), the handlers returning normally: how the
\* promise it returns settles, given how p settles and which handlers are there
Then(outcome, onFulfilled, onRejected) ==
  IF outcome = "rejected" /\ ~onRejected THEN "rejected" ELSE "resolved"

\* _processSessionRenewed with no handler for the rejection
ProcessSessionRenewedPromiseUncaught(silentAuth) ==
  Then(silentAuth, TRUE, FALSE)

\* the promise _processSessionRenewed returns, given _trySilentAuth's promise
ProcessSessionRenewedPromise(silentAuth) ==
  Then(silentAuth, TRUE, TRUE)

\* the promise _processSessionExpired returns, given the promise of
\* beforeSessionExpired() and, if it is called, _trySilentAuth's promise
ProcessSessionExpiredPromise(hook, silentAuth) ==
  LET afterHook == IF hook = "resolved" THEN silentAuth
                   ELSE Then(hook, TRUE, FALSE)
  IN Then(afterHook, TRUE, TRUE)

\* _processSessionExpired starting the silent auth without waiting for the
\* hook
ProcessSessionExpiredStartEager(w) == TrySilentAuth(w)

\* _processSessionExpired up to the promise of beforeSessionExpired(): the
\* hook is called and nothing else
ProcessSessionExpiredStart(w) == w

\* sessionAuthenticated()
SessionAuthenticatedHandler(w) == SetupFutureEvents(w)

\* sessionInvalidated()
SessionInvalidatedHandler(w) == ClearJobs(w)

\* the session becomes authenticated with new data; the session service
\* triggers sessionAuthenticated when it was not authenticated before
Authenticate(w, exp) ==
  LET s == SessionStore(w, exp)
  IN IF ~w.isAuthenticated /\ ~destroyed THEN SessionAuthenticatedHandler(s) ELSE s

\* ------------------------------------------------------------ bookkeeping
\* the record of one step: the operation, the job whose callback it ran (if
\* any), session.isAuthenticated when that job fired and when the step began,
\* whether the fired timer was started before willDestroy, whether the
\* callback has run to its end, the calls the step made, and how the promise
\* the callback returned has settled
Step(op, name, authAtFire, pre, done, w, promise) ==
  [op |-> op, name |-> name, authAtFire |-> authAtFire,
   authBefore |-> isAuthenticated, pre |-> pre, done |-> done, log |-> w.log,
   promise |-> promise]

\* the timers that willDestroy left pending were started before it
Survive(w) ==
  LET left == BagToSet(w.timers)
  IN [w EXCEPT !.timers = [u \in {[t EXCEPT !.pre = TRUE] : t \in left} |->
                             w.timers[[u EXCEPT !.pre = FALSE]]]]

Commit(w) ==
  /\ w.laterCalls <= MaxJobs
  /\ isAuthenticated' = w.isAuthenticated
  /\ data' = w.data
  /\ timers' = w.timers
  /\ laterCalls' = w.laterCalls
  /\ cache' = w.cache
  /\ invalidateCalls' = w.invalidateCalls
  /\ invalidatePending' = w.invalidatePending

\* ------------------------------------------------------------------ Init
Init ==
  /\ now = 0
  /\ isAuthenticated \in BOOLEAN
  /\ data \in ExpValues
  /\ (~isAuthenticated => data = NoExp)
  /\ inTesting \in BOOLEAN
  /\ fastBoot \in BOOLEAN
  /\ silentAuthRenewSeconds \in 0..MaxRenew
  /\ silentAuthOnSessionExpire \in BOOLEAN
  /\ timers = EmptyBag
  /\ laterCalls = 0
  /\ cache = EmptyCache
  /\ destroyed = FALSE
  /\ inFlight = EmptyBag
  /\ invalidateCalls = 0
  /\ invalidatePending = FALSE
  /\ providerFailed = FALSE
  /\ last = [op |-> "init", name |-> "none", authAtFire |-> FALSE,
             authBefore |-> FALSE, pre |-> FALSE, done |-> FALSE, log |-> <<>>,
             promise |-> "none"]

\* --------------------------------------------------------------- actions
\* time passes
Tick ==
  /\ now < MaxNow
  /\ now' = now + 1
  /\ last' = Step("Tick", "none", FALSE, FALSE, FALSE, World, "none")
  /\ UNCHANGED <<isAuthenticated, data, config, timers, laterCalls, cache,
                 destroyed, inFlight, invalidateCalls, invalidatePending,
                 providerFailed>>

\* the session becomes authenticated from outside this route (login in this
\* or another tab); the session service triggers sessionAuthenticated
SessionAuthenticated ==
  /\ ~destroyed
  /\ ~isAuthenticated
  /\ \E exp \in ExpValues :
       LET w == Authenticate(World, exp)
       IN /\ Commit(w)
          /\ last' = Step("SessionAuthenticated", "none", FALSE, FALSE, FALSE, w, "none")
  /\ UNCHANGED <<now, config, destroyed, inFlight, providerFailed>>

\* the session is invalidated (after session.invalidate(), or from outside);
\* the session service triggers sessionInvalidated
SessionInvalidated ==
  /\ ~destroyed
  /\ isAuthenticated
  /\ LET w == SessionInvalidatedHandler(SessionClear(World))
     IN /\ Commit(w)
        /\ last' = Step("SessionInvalidated", "none", FALSE, FALSE, FALSE, w, "none")
  /\ UNCHANGED <<now, config, destroyed, inFlight, providerFailed>>

\* beforeModel(): the setup. The promise chain that follows it ends in
\* session.authenticate('authenticator:auth0-url-hash', ...), whose success
\* reaches the route as SessionAuthenticated.
BeforeModel ==
  /\ ~destroyed
  /\ LET w == SetupFutureEvents(World)
     IN /\ Commit(w)
        /\ last' = Step("BeforeModel", "none", FALSE, FALSE, FALSE, w, "none")
  /\ UNCHANGED <<now, config, destroyed, inFlight, providerFailed>>

\* willDestroy()
WillDestroy ==
  /\ ~destroyed
  /\ destroyed' = TRUE
  /\ LET w == Survive(ClearJobs(World))
     IN /\ Commit(w)
        /\ last' = Step("WillDestroy", "none", FALSE, FALSE, FALSE, w, "none")
  /\ UNCHANGED <<now, config, inFlight, providerFailed>>

\* a callback suspended on a promise
Suspended(t, pc) ==
  SetToBag({[name |-> t.name, pc |-> pc, authAtFire |-> isAuthenticated]})

\* the run loop fires a renew timer: _processSessionRenewed, up to the point
\* where it waits for the silent-auth provider
FireRenew ==
  \E t \in BagToSet(timers) :
    /\ t.name = RenewJobName
    /\ now >= t.due
    /\ LET w == TrySilentAuth([World EXCEPT !.timers = @ (-) SetToBag({t})])
       IN IF silentAuthOnSessionExpire
          THEN /\ Commit(w)
               /\ inFlight' = inFlight (+) Suspended(t, "silentAuth")
               /\ last' = Step("FireRenew", t.name, isAuthenticated, t.pre, FALSE, w,
                                 "pending")
          ELSE LET c == RenewContinuation(w, "resolved")
               IN /\ Commit(c)
                  /\ inFlight' = inFlight
                  /\ last' = Step("FireRenew", t.name, isAuthenticated, t.pre, TRUE, c,
                                    ProcessSessionRenewedPromise("resolved"))
    /\ UNCHANGED <<now, config, destroyed, providerFailed>>

\* the run loop fires an expire timer: _processSessionExpired calls
\* beforeSessionExpired() and waits for the promise it returns
FireExpire ==
  \E t \in BagToSet(timers) :
    /\ t.name = ExpireJobName
    /\ now >= t.due
    /\ LET w == ProcessSessionExpiredStart(
                   [World EXCEPT !.timers = @ (-) SetToBag({t})])
       IN /\ Commit(w)
          /\ last' = Step("FireExpire", t.name, isAuthenticated, t.pre, FALSE, w,
                          "pending")
    /\ inFlight' = inFlight (+) Suspended(t, "hook")
    /\ UNCHANGED <<now, config, destroyed, providerFailed>>

\* beforeSessionExpired() resolves: _trySilentAuth runs
HookResolves ==
  \E f \in BagToSet(inFlight) :
    /\ f.pc = "hook"
    /\ LET w == TrySilentAuth(World)
       IN IF silentAuthOnSessionExpire
          THEN /\ Commit(w)
               /\ inFlight' = (inFlight (-) SetToBag({f}))
                                (+) SetToBag({[f EXCEPT !.pc = "silentAuth"]})
               /\ last' = Step("HookResolves", f.name, f.authAtFire, FALSE, FALSE, w,
                                 "pending")
          ELSE LET c == ExpireContinuation(w, "resolved")
               IN /\ Commit(c)
                  /\ inFlight' = inFlight (-) SetToBag({f})
                  /\ last' = Step("HookResolves", f.name, f.authAtFire, FALSE, TRUE, c,
                                    ProcessSessionExpiredPromise("resolved", "resolved"))
    /\ UNCHANGED <<now, config, destroyed, providerFailed>>

\* beforeSessionExpired() rejects: _trySilentAuth is skipped
HookRejects ==
  \E f \in BagToSet(inFlight) :
    /\ f.pc = "hook"
    /\ LET w == ExpireContinuation(World, "rejected")
       IN /\ Commit(w)
          /\ last' = Step("HookRejects", f.name, f.authAtFire, FALSE, TRUE, w,
                          ProcessSessionExpiredPromise("rejected", "resolved"))
    /\ inFlight' = inFlight (-) SetToBag({f})
    /\ UNCHANGED <<now, config, destroyed, providerFailed>>

\* what the callback does once _trySilentAuth's promise has settled
Continuation(w, name, outcome) ==
  IF name = RenewJobName THEN RenewContinuation(w, outcome)
  ELSE ExpireContinuation(w, outcome)

\* the promise the callback returns once _trySilentAuth's promise has settled
ContinuationPromise(name, outcome) ==
  IF name = RenewJobName THEN ProcessSessionRenewedPromise(outcome)
  ELSE ProcessSessionExpiredPromise("resolved", outcome)

\* the silent-auth provider answers with success: the session holds new data
SilentAuthSucceeds ==
  \E f \in BagToSet(inFlight) :
    /\ f.pc = "silentAuth"
    /\ \E exp \in ExpValues :
         LET w == Continuation(Authenticate(World, exp), f.name, SilentAuthOutcome(TRUE))
         IN /\ Commit(w)
            /\ last' = Step("SilentAuthSucceeds", f.name, f.authAtFire, FALSE, TRUE, w,
                            ContinuationPromise(f.name, SilentAuthOutcome(TRUE)))
    /\ inFlight' = inFlight (-) SetToBag({f})
    /\ UNCHANGED <<now, config, destroyed, providerFailed>>

\* the silent-auth provider answers with failure
SilentAuthFails ==
  \E f \in BagToSet(inFlight) :
    /\ f.pc = "silentAuth"
    /\ LET w == Continuation(World, f.name, SilentAuthOutcome(FALSE))
       IN /\ Commit(w)
          /\ last' = Step("SilentAuthFails", f.name, f.authAtFire, FALSE, TRUE, w,
                          ContinuationPromise(f.name, SilentAuthOutcome(FALSE)))
    /\ inFlight' = inFlight (-) SetToBag({f})
    /\ providerFailed' = TRUE
    /\ UNCHANGED <<now, config, destroyed>>

Next ==
  \/ Tick
  \/ SessionAuthenticated
  \/ SessionInvalidated
  \/ BeforeModel
  \/ WillDestroy
  \/ FireRenew
  \/ FireExpire
  \/ HookResolves
  \/ HookRejects
  \/ SilentAuthSucceeds
  \/ SilentAuthFails

Spec == Init /\ [][Next]_vars

\* ------------------------------------------------- the expiration scenario
\* An authenticated session whose token expires within the time the clock
\* covers, scheduling not suppressed, the setup done once by beforeModel.
\* From there: further setups before any callback is under way, timers
\* firing, the hook resolving, the provider failing, and the session service
\* completing session.invalidate(); no session event from outside and no
\* teardown.
InitExpire ==
  /\ now = 0
  /\ inTesting = FALSE
  /\ fastBoot = FALSE
  /\ silentAuthRenewSeconds \in 0..MaxRenew
  /\ silentAuthOnSessionExpire \in BOOLEAN
  /\ destroyed = FALSE
  /\ inFlight = EmptyBag
  /\ providerFailed = FALSE
  /\ \E exp \in {e \in ExpValues : e <= MaxNow} :
       LET w == SetupFutureEvents(
                  [isAuthenticated |-> TRUE, data |-> exp, timers |-> EmptyBag,
                   laterCalls |-> 0, cache |-> EmptyCache, invalidateCalls |-> 0,
                   invalidatePending |-> FALSE, log |-> <<>>])
       IN /\ isAuthenticated = w.isAuthenticated
          /\ data = w.data
          /\ timers = w.timers
          /\ laterCalls = w.laterCalls
          /\ cache = w.cache
          /\ invalidateCalls = w.invalidateCalls
          /\ invalidatePending = w.invalidatePending
          /\ last = [op |-> "BeforeModel", name |-> "none", authAtFire |-> FALSE,
                     authBefore |-> TRUE, pre |-> FALSE, done |-> FALSE,
                     log |-> w.log, promise |-> "none"]

\* the session service completes session.invalidate(): the session is
\* invalidated and sessionInvalidated is triggered
InvalidationCompletes ==
  /\ invalidatePending
  /\ SessionInvalidated

\* the setup runs again (beforeModel, then sessionAuthenticated) before an
\* expiration is under way
SetupAgain ==
  /\ inFlight = EmptyBag
  /\ invalidateCalls = 0
  /\ BeforeModel

NextExpire ==
  \/ Tick
  \/ SetupAgain
  \/ InvalidationCompletes
  \/ FireRenew
  \/ FireExpire
  \/ HookResolves
  \/ SilentAuthFails

\* the run loop fires a timer whose delay has elapsed, promises that settle
\* run their handlers, and the clock advances
SpecExpire ==
  /\ InitExpire
  /\ [][NextExpire]_vars
  /\ WF_vars(Tick)
  /\ WF_vars(FireRenew)
  /\ WF_vars(FireExpire)
  /\ WF_vars(HookResolves)
  /\ WF_vars(SilentAuthFails)
  /\ WF_vars(InvalidationCompletes)

\* ---------------------------------------------------------- properties
\* number of pending timers of one job
Pending(jobName) ==
  LET named == {t \in BagToSet(timers) : t.name = jobName}
  IN BagCardinality([t \in named |-> timers[t]])

\* the calls of one kind the last step made
Calls(ev, name) ==
  {i \in DOMAIN last.log : last.log[i].ev = ev /\ last.log[i].name = name}

\* the last step ran the callback of a job to its end
Finished(jobName) == last.done /\ last.name = jobName

\* the expiration instant of the current session, by the data model
SessionExpiresAt == IF isAuthenticated /\ data # NoExp THEN data ELSE 0

NoSchedulingSuppressed == ~inTesting /\ ~fastBoot

\* max(0, expiresAt - now()) for the session and the clock as they are
RemainingNow ==
  IF SessionExpiresAt > now THEN SessionExpiresAt - now ELSE 0

\* the calls the last step made in the job callback itself: when the silent
\* auth authenticated a session that was not authenticated, the session
\* service first ran the sessionAuthenticated handler, whose calls come first
OwnCalls ==
  LET handler == IF last.op = "SilentAuthSucceeds" /\ ~last.authBefore
                    /\ ~destroyed
                 THEN Len(SessionAuthenticatedHandler(World).log)
                 ELSE 0
  IN SubSeq(last.log, handler + 1, Len(last.log))

\* C1: in every reachable state at most one timer is pending for the renew
\* job and at most one for the expire job.
C1_AtMostOneLiveTimerPerName ==
  \A n \in JobNames : Pending(n) <= 1

\* C2 (as claimed): an expire firing that began with an authenticated
\* session, whose hook resolved and whose silent auth is disabled or failed,
\* calls session.invalidate() exactly once and does not reschedule the
\* expire job.
C2_ProceedInvalidatesOnce ==
  (/\ Finished(ExpireJobName)
   /\ last.op \in {"HookResolves", "SilentAuthFails"}
   /\ last.authAtFire)
  => /\ Cardinality(Calls("invalidate", "session")) = 1
     /\ Calls("schedule", ExpireJobName) = {}

\* C2 (amended): the same, provided the session is still authenticated when
\* the hook and the silent-auth attempt have completed.
C2_ProceedInvalidatesOnceIfStillAuthenticated ==
  (/\ Finished(ExpireJobName)
   /\ last.op \in {"HookResolves", "SilentAuthFails"}
   /\ last.authAtFire
   /\ last.authBefore)
  => /\ Cardinality(Calls("invalidate", "session")) = 1
     /\ Calls("schedule", ExpireJobName) = {}
     /\ invalidateCalls >= 1

C2_Witness ==
  /\ Finished(ExpireJobName)
  /\ last.op = "SilentAuthFails"
  /\ last.authAtFire
  /\ last.authBefore
  /\ Cardinality(Calls("invalidate", "session")) = 1

\* C3: with silentAuthOnSessionExpire and a provider that has never failed,
\* an expire firing whose silent auth succeeded ends with the expire job
\* scheduled again and pending, and session.invalidate() has not been called
\* in the run.
C3_ReprieveReschedules ==
  /\ (Finished(ExpireJobName) /\ last.op = "SilentAuthSucceeds")
       => /\ Calls("schedule", ExpireJobName) # {}
          /\ last.log[Len(last.log)].ev = "schedule"
          /\ last.log[Len(last.log)].name = ExpireJobName
          /\ Held(World, ExpireJobName) # {}
          /\ Calls("invalidate", "session") = {}
  /\ (silentAuthOnSessionExpire /\ ~providerFailed) => invalidateCalls = 0

C3_Witness ==
  /\ Finished(ExpireJobName)
  /\ last.op = "SilentAuthSucceeds"
  /\ ~providerFailed
  /\ Held(World, ExpireJobName) # {}

\* C4: a renew firing that met no provider failure ends with a new renew job
\* scheduled, no other renew timer pending beside it, and without a call of
\* session.invalidate().
C4_RenewalSuccess ==
  (Finished(RenewJobName) /\ last.op \in {"FireRenew", "SilentAuthSucceeds"})
  => /\ Calls("schedule", RenewJobName) # {}
     /\ Pending(RenewJobName) = 1
     /\ Calls("invalidate", "session") = {}

\* C5: every call that starts a renew or expire timer is made while
\* session.isAuthenticated is true.
C5_NoJobWhileUnauthenticated ==
  \A i \in DOMAIN last.log : last.log[i].ev = "schedule" => last.log[i].auth

\* C6: once willDestroy has run, no timer that was started before it fires.
C6_NoFiringAfterTeardown ==
  last.op \in {"FireRenew", "FireExpire"} => ~last.pre

\* C7: right after the sessionInvalidated handler has run, no renew timer and
\* no expire timer is pending and the session is not authenticated.
C7_IdleAfterInvalidated ==
  last.op = "SessionInvalidated" => timers = EmptyBag /\ ~isAuthenticated

\* C8: the value computed for the remaining seconds is max(0, expiresAt - now)
\* for the expiration instant of the session and the time of the computation:
\* 0 when expiresAt <= now, never negative.
C8_RemainingSeconds ==
  cache.valid =>
    /\ cache.value = (IF SessionExpiresAt > cache.at
                      THEN SessionExpiresAt - cache.at ELSE 0)
    /\ (SessionExpiresAt <= cache.at => cache.value = 0)
    /\ cache.value >= 0

C8_Witness ==
  /\ cache.valid
  /\ isAuthenticated
  /\ data # NoExp
  /\ data <= cache.at
  /\ cache.value = 0

C10_SuppressedModeSchedulesNothing ==
  (inTesting \/ fastBoot)
  => /\ timers = EmptyBag
     /\ inFlight = EmptyBag
     /\ last.log = <<>>
     /\ invalidateCalls = 0
     /\ laterCalls = 0

C10_Witness ==
  /\ (inTesting \/ fastBoot)
  /\ isAuthenticated
  /\ last.op = "SessionAuthenticated"

\* C11: in the expiration scenario session.invalidate() is called at most
\* once in the run, and exactly once by the time the session is invalidated.
C11_InvalidatedExactlyOnce ==
  /\ invalidateCalls <= 1
  /\ (~isAuthenticated => invalidateCalls = 1)

\* C11, the liveness half: in the expiration scenario the session is
\* eventually invalidated.
C11_EventuallyInvalidated == <>(~isAuthenticated)

C13_InvalidateOnlyWhenAuthenticated ==
  /\ \A i \in Calls("invalidate", "session") :
        last.log[i].auth /\ last.authBefore /\ last.name = ExpireJobName
  /\ (Finished(ExpireJobName) /\ ~last.authBefore
        /\ last.op \in {"HookResolves", "SilentAuthFails"})
       => /\ Calls("invalidate", "session") = {}
          /\ ~invalidatePending
  /\ last.name = RenewJobName => Calls("invalidate", "session") = {}

C13_Witness ==
  /\ Finished(ExpireJobName)
  /\ last.op = "SilentAuthFails"
  /\ last.authAtFire
  /\ ~last.authBefore
  /\ Calls("invalidate", "session") = {}

\* C14: the step that fires the expire job calls the hook and nothing else,
\* and leaves the callback waiting for it; whatever an expire firing calls
\* (authenticate, invalidate, schedule) it calls in a step taken when the hook
\* has settled or later.
C14_NothingBeforeHookSettles ==
  /\ last.op = "FireExpire"
       => /\ last.log = <<>>
          /\ ~last.done
          /\ last.promise = "pending"
          /\ \E f \in BagToSet(inFlight) :
                f.name = ExpireJobName /\ f.pc = "hook"
  /\ (last.name = ExpireJobName /\ last.log # <<>>)
       => last.op \in {"HookResolves", "HookRejects", "SilentAuthSucceeds",
                       "SilentAuthFails"}

C14_Witness ==
  /\ last.op = "FireExpire"
  /\ isAuthenticated
  /\ silentAuthOnSessionExpire
  /\ \E f \in BagToSet(inFlight) : f.name = ExpireJobName /\ f.pc = "hook"

\* C15: whenever the expire job is scheduled, its delay is
\* max(0, expiresAt - now()) * 1000 for the session data and the clock of
\* that moment.
C15_DelaysNeverStale ==
  \A i \in Calls("schedule", ExpireJobName) :
    last.log[i].delay = RemainingNow * 1000

\* C16: with silentAuthOnSessionExpire false the silent-auth authenticate
\* call is never made and no callback waits for a provider; a renew firing
\* schedules the next renew job and nothing else, and an expire firing whose
\* hook resolved goes straight to the invalidate-if-authenticated step.
C16_NoSilentAuthWhenDisabled ==
  ~silentAuthOnSessionExpire
  => /\ Calls("authenticate", "session") = {}
     /\ \A f \in BagToSet(inFlight) : f.pc # "silentAuth"
     /\ last.op \notin {"SilentAuthSucceeds", "SilentAuthFails"}
     /\ last.op = "FireRenew"
          => /\ last.done
             /\ last.log = <<[ev |-> "schedule", name |-> RenewJobName,
                              delay |-> silentAuthRenewSeconds * 1000,
                              auth |-> isAuthenticated]>>
     /\ last.op = "HookResolves"
          => /\ last.done
             /\ last.log = (IF last.authBefore
                            THEN <<[ev |-> "invalidate", name |-> "session",
                                    delay |-> 0, auth |-> TRUE]>>
                            ELSE <<>>)

C16_Witness ==
  /\ ~silentAuthOnSessionExpire
  /\ last.op = "FireRenew"
  /\ last.done
  /\ Pending(ExpireJobName) > 0
  /\ Calls("schedule", RenewJobName) # {}

\* C17: once willDestroy has run no renew or expire timer is pending.
C17_NoJobOutlivesController ==
  destroyed => timers = EmptyBag

\* C18: the promise a job callback returns never settles as rejected, and
\* when the callback has run to its end it has settled as resolved, for
\* either provider outcome and either setting of silentAuthOnSessionExpire.
C18_JobPromisesResolve ==
  /\ last.promise # "rejected"
  /\ (last.done /\ last.name \in JobNames) => last.promise = "resolved"
  /\ (last.name \in JobNames /\ ~last.done) => last.promise = "pending"

C18_Witness ==
  /\ Finished(RenewJobName)
  /\ last.op = "SilentAuthSucceeds"
  /\ last.promise = "resolved"

\* C19: an expire firing whose hook rejected makes no silent-auth call and no
\* call of session.invalidate(), and schedules the expire job with the
\* remaining time of that moment.
C19_HookRejectionReschedules ==
  (Finished(ExpireJobName) /\ last.op = "HookRejects")
  => /\ Calls("authenticate", "session") = {}
     /\ Calls("invalidate", "session") = {}
     /\ last.log = <<[ev |-> "schedule", name |-> ExpireJobName,
                      delay |-> RemainingNow * 1000,
                      auth |-> isAuthenticated]>>

\* C20: the step that ends an expire firing does not both call
\* session.invalidate() and schedule the expire job, calls invalidate() at
\* most once and schedules no renew job itself; the earlier steps of the
\* firing neither invalidate nor schedule.
C20_ExpireOutcomesExclusive ==
  last.name = ExpireJobName
  => LET own == OwnCalls
         invalidates == {i \in DOMAIN own : own[i].ev = "invalidate"}
         expires == {i \in DOMAIN own :
                       own[i].ev = "schedule" /\ own[i].name = ExpireJobName}
         renews == {i \in DOMAIN own :
                      own[i].ev = "schedule" /\ own[i].name = RenewJobName}
     IN /\ ~(invalidates # {} /\ expires # {})
        /\ Cardinality(invalidates) <= 1
        /\ Cardinality(expires) <= 1
        /\ renews = {}
        /\ ~last.done => (invalidates = {} /\ expires = {})

C20_Witness ==
  /\ Finished(ExpireJobName)
  /\ last.op = "SilentAuthSucceeds"
  /\ ~last.authBefore
  /\ ~destroyed
  /\ silentAuthRenewSeconds > 0
  /\ Calls("schedule", RenewJobName) # {}
  /\ Len(OwnCalls) = 1
====
